---- MODULE Spec2Model ----
(***************************************************************************)
(* The scheduler described in documentation/scheduler.md: the deck due     *)
(* tree (limits propagated top-down, counts aggregated bottom-up), the     *)
(* four card queues, the list of decks still to probe, and the reset       *)
(* protocol. The field editor of qt/ts/src/editor.ts: the current field,   *)
(* the change timer, and the saves sent on key, blur and timer events.     *)
(***************************************************************************)
EXTENDS Integers, Sequences, FiniteSets, TLC

VARIABLES
    parent,        \* storage: deck -> its parent deck, 0 for a root
    limit,         \* storage: deck -> limit kind -> remaining limit today
    deckOf,        \* storage: item -> owning deck
    ctype,         \* storage: item -> new / rev / lrnNow / lrnLater / done
    hidden,        \* storage: item -> none / suspended / buried
    burySiblings,  \* storage: the "bury siblings" option
    scope,         \* session: the selected deck
    queues,        \* session: queue kind -> sequence of items
    probeList,     \* session: decks still to probe
    generation,    \* session: generation counter
    tree,          \* session: the deck due tree
    inflight,      \* session: the refill or rebuild running in the background
    last,          \* the last operation, its arguments and its result
    editor         \* the field editor: its variables, the page and the timers

schedulerVars ==
    <<parent, limit, deckOf, ctype, hidden, burySiblings, scope, queues,
      probeList, generation, tree, inflight, last>>

vars == <<schedulerVars, editor>>

storageVars == <<parent, limit, deckOf, ctype, hidden, burySiblings>>

----------------------------------------------------------------------------
(* Bounds of the model *)

NDecks == 3
NItems == 3
MaxLimit == 3
MaxRaw == 5
MaxGen == 1
MaxOvercount == 1
NFields == 2
MaxTimers == 3

Decks == 1 .. NDecks
Items == 1 .. NItems

(* A deck without a configured limit. *)
NoLimit == -1

LimitValues == (0 .. MaxLimit) \cup {NoLimit}
LimitKinds == {"new", "rev"}
CountKinds == {"new", "rev", "lrn"}
QueueKinds == {"lrnNow", "rev", "new", "lrnLater"}
Hiddens == {"none", "suspended", "buried"}
None == 0

(* New cards searched before the cards to review. *)
PriorityNewFirst == <<"lrnNow", "new", "rev", "lrnLater">>

(* The order in which the four kinds of cards are searched. *)
Priority == <<"lrnNow", "rev", "new", "lrnLater">>

(* The number displayed for a queue kind: both learning queues share one. *)
CountKindOf(k) == IF k \in {"lrnNow", "lrnLater"} THEN "lrn" ELSE k

(* Items generated from the same note are siblings. *)
NoteOf(i) == (i + 1) \div 2

Siblings(i) == {j \in Items : NoteOf(j) = NoteOf(i)}

----------------------------------------------------------------------------
(* The deck forest *)

(* A deck has at most one parent, and no deck is its own ancestor. *)
Forests == {p \in [Decks -> 0 .. NDecks] : \A d \in Decks : p[d] < d}

RECURSIVE Ancestors(_, _)
Ancestors(par, d) ==
    IF par[d] = 0 THEN {} ELSE {par[d]} \cup Ancestors(par, par[d])

Children(par, d) == {c \in Decks : par[c] = d}

Descendants(par, d) == {c \in Decks : c = d \/ d \in Ancestors(par, c)}

RECURSIVE SortedSeq(_)
SortedSeq(S) ==
    IF S = {} THEN <<>>
    ELSE LET m == CHOOSE x \in S : \A y \in S : x <= y
         IN  <<m>> \o SortedSeq(S \ {m})

RECURSIVE SumOver(_, _)
SumOver(f, S) ==
    IF S = {} THEN 0
    ELSE LET x == CHOOSE y \in S : TRUE
         IN  f[x] + SumOver(f, S \ {x})

----------------------------------------------------------------------------
(* Computing the deck due tree *)

(* The limit of the parent forgotten. *)
MinLimitOwnOnly(a, b) == a

(* The smaller of two limits, a missing limit being no constraint. *)
MinLimit(a, b) ==
    IF a = NoLimit THEN b
    ELSE IF b = NoLimit THEN a
    ELSE IF a <= b THEN a ELSE b

(* A limit of zero taken for a missing limit. *)
(* A deck without limit shows nothing. *)
ApplyLimitNoneIsZero(lim, n) ==
    IF lim = NoLimit THEN 0 ELSE IF n <= lim THEN n ELSE lim

ApplyLimitZeroIsNone(lim, n) ==
    IF lim = NoLimit \/ lim = 0 \/ n <= lim THEN n ELSE lim

(* A count after the limit is applied. *)
ApplyLimit(lim, n) == IF lim = NoLimit \/ n <= lim THEN n ELSE lim

(* The limits are propagated from each deck to its descendants, roots first:
   the limit of a deck is known once that of its parent is. *)
DeckLimitPropagator(par, lim) ==
    LET eff[d \in Decks] ==
            IF par[d] = 0 THEN lim[d] ELSE MinLimit(lim[d], eff[par[d]])
    IN  [d \in Decks |-> eff[d]]

(* The raw counts of the children added, not the counts they display. *)
CountAggregatorRawChildren(par, raw, eff) ==
    LET disp[d \in Decks] ==
            ApplyLimit(eff[d],
                raw[d] + SumOver([c \in Children(par, d) |-> raw[c]],
                                 Children(par, d)))
    IN  [d \in Decks |-> disp[d]]

(* The limit applied to the deck's own cards only, the children added after. *)
CountAggregatorOwnOnly(par, raw, eff) ==
    LET disp[d \in Decks] ==
            ApplyLimit(eff[d], raw[d])
                + SumOver([c \in Children(par, d) |-> disp[c]],
                          Children(par, d))
    IN  [d \in Decks |-> disp[d]]

(* From leaves to roots: the counts of the children are added to the deck's
   own, then the limit is applied. *)
CountAggregator(par, raw, eff) ==
    LET disp[d \in Decks] ==
            ApplyLimit(eff[d],
                raw[d] + SumOver([c \in Children(par, d) |-> disp[c]],
                                 Children(par, d)))
    IN  [d \in Decks |-> disp[d]]

(* The limits of one count kind: cards in learning have no limit. *)
LimitsOf(lims, k) ==
    [d \in Decks |-> IF k \in LimitKinds THEN lims[d][k] ELSE NoLimit]

(* The deck due tree: for each count kind and deck, the deck's own raw count,
   its effective limit and the count displayed. *)
DeckDueTree(par, lims, raw) ==
    [k \in CountKinds |->
        LET eff == DeckLimitPropagator(par, LimitsOf(lims, k))
            own == [d \in Decks |-> raw[d][k]]
        IN  [raw |-> own, eff |-> eff, disp |-> CountAggregator(par, own, eff)]]

----------------------------------------------------------------------------
(* Storage *)

(* The queue classification of an item. *)
Classification(i) == IF hidden[i] # "none" THEN hidden[i] ELSE ctype[i]

(* The raw counts of storage: the cards of each kind directly in each deck. *)
RawCounts ==
    [d \in Decks |-> [k \in CountKinds |->
        Cardinality({i \in Items : /\ deckOf[i] = d
                                   /\ Classification(i) \in QueueKinds
                                   /\ CountKindOf(Classification(i)) = k})]]

ZeroCounts == [d \in Decks |-> [k \in CountKinds |-> 0]]

(* The limit that remains today for a deck, its ancestors taken into account. *)
LimitRemaining(d, k) ==
    DeckLimitPropagator(parent, LimitsOf(limit, CountKindOf(k)))[d]

Take(s, n) == IF n = NoLimit \/ Len(s) <= n THEN s ELSE SubSeq(s, 1, n)

(* The suspended and the buried cards listed with the others. *)
ListDueItemsHidden(d, k, limRemaining) ==
    Take(SortedSeq({i \in Items : deckOf[i] = d /\ ctype[i] = k}),
         limRemaining)

(* The due items of kind k directly in deck d, up to the remaining limit. *)
ListDueItems(d, k, limRemaining) ==
    Take(SortedSeq({i \in Items : deckOf[i] = d /\ Classification(i) = k}),
         limRemaining)

(* The next state of an answered card; the interval computation is opaque. *)
Grades == {"again", "good"}

ComputeNextState(c, grade) == IF grade = "again" THEN "lrnNow" ELSE "done"

(* The deck due tree of the current storage. *)
BuildTree == DeckDueTree(parent, limit, RawCounts)

----------------------------------------------------------------------------
(* The queues *)

EmptyQueues == [k \in QueueKinds |-> <<>>]

AllDescendants == SortedSeq(Descendants(parent, scope))

Queued(qs) == UNION {{qs[k][n] : n \in DOMAIN qs[k]} : k \in QueueKinds}

(* Every deck of the list is queried and the cards of all are loaded. *)
RECURSIVE ProbeAll(_, _, _)
ProbeAll(pl, k, asked) ==
    IF pl = <<>> THEN [items |-> <<>>, probeList |-> pl, asked |-> asked]
    ELSE LET got  == ListDueItems(Head(pl), k, LimitRemaining(Head(pl), k))
             rest == ProbeAll(Tail(pl), k, Append(asked, Head(pl)))
         IN  [items |-> got \o rest.items, probeList |-> pl,
              asked |-> rest.asked]

(* Probing the decks in order: a deck without card of the kind is removed
   from the list, the first deck with cards fills the queue and stays. *)
RECURSIVE Probe(_, _, _)
Probe(pl, k, asked) ==
    IF pl = <<>> THEN [items |-> <<>>, probeList |-> pl, asked |-> asked]
    ELSE LET got == ListDueItems(Head(pl), k, LimitRemaining(Head(pl), k))
         IN  IF got # <<>>
             THEN [items |-> got, probeList |-> pl,
                   asked |-> Append(asked, Head(pl))]
             ELSE Probe(Tail(pl), k, Append(asked, Head(pl)))

(* Every descendant of the selected deck is probed at each refill. *)
RefillFromAll(qs, pl, k) ==
    IF qs[k] # <<>>
    THEN [queues |-> qs, probeList |-> pl, asked |-> <<>>, result |-> TRUE]
    ELSE LET r == Probe(AllDescendants, k, <<>>)
         IN  [queues |-> [qs EXCEPT ![k] = r.items],
              probeList |-> r.probeList, asked |-> r.asked,
              result |-> r.items # <<>>]

(* The decks probed whether the queue has cards or not. *)
RefillAlwaysProbes(qs, pl, k) ==
    LET r == Probe(pl, k, <<>>)
    IN  [queues |-> [qs EXCEPT ![k] = @ \o r.items],
         probeList |-> r.probeList, asked |-> r.asked,
         result |-> r.items # <<>>]

(* refill: nothing to do when the queue has cards; the result tells whether
   the queue has cards after the call. *)
Refill(qs, pl, k) ==
    IF qs[k] # <<>>
    THEN [queues |-> qs, probeList |-> pl, asked |-> <<>>, result |-> TRUE]
    ELSE LET r == Probe(pl, k, <<>>)
         IN  [queues |-> [qs EXCEPT ![k] = r.items],
              probeList |-> r.probeList, asked |-> r.asked,
              result |-> r.items # <<>>]

(* Only the queue of the card's own kind is cleaned. *)
ConsumeOwnQueue(qs, x) ==
    [k \in QueueKinds |->
        LET Keep(j) == NoteOf(j) # NoteOf(x)
        IN  IF k = ctype[x] THEN SelectSeq(qs[k], Keep) ELSE qs[k]]

(* Only the card itself leaves the queues, its siblings stay. *)
ConsumeOnlyItem(qs, x) ==
    [k \in QueueKinds |-> LET Keep(j) == j # x IN SelectSeq(qs[k], Keep)]

(* Every queue that holds the card or a sibling is emptied. *)
ConsumeWholeQueue(qs, x) ==
    [k \in QueueKinds |->
        IF \E n \in DOMAIN qs[k] : NoteOf(qs[k][n]) = NoteOf(x)
        THEN <<>> ELSE qs[k]]

(* consume: the card and its siblings leave all four queues. *)
Consume(qs, x) ==
    [k \in QueueKinds |->
        LET Keep(j) == NoteOf(j) # NoteOf(x) IN SelectSeq(qs[k], Keep)]

(* The front of the queue is taken as it is. *)
DropHiddenNever(q) == q

(* A queued card that storage now classifies as suspended or buried is
   dropped from the front of its queue. *)
RECURSIVE DropHidden(_)
DropHidden(q) ==
    IF q # <<>> /\ hidden[Head(q)] # "none" THEN DropHidden(Tail(q)) ELSE q

(* The number counted again from storage at each call. *)
TopCountFresh(k) == BuildTree[CountKindOf(k)].disp[scope]

(* The number displayed for the selected deck. *)
TopCount(k) == tree[CountKindOf(k)].disp[scope]

(* The refill called even when the count of the kind is zero. *)
RECURSIVE SelectAlwaysRefills(_, _, _, _)
SelectAlwaysRefills(qs, pl, n, calls) ==
    IF n > Len(Priority)
    THEN [result |-> None, queues |-> qs, probeList |-> pl, kinds |-> calls]
    ELSE LET k  == Priority[n]
             r  == Refill(qs, pl, k)
             q  == DropHidden(r.queues[k])
             q2 == [r.queues EXCEPT ![k] = q]
         IN  IF q # <<>>
             THEN [result |-> Head(q), queues |-> q2,
                   probeList |-> r.probeList, kinds |-> Append(calls, k)]
             ELSE SelectAlwaysRefills(q2, r.probeList, n + 1, Append(calls, k))

(* The decks probed again from the start when nothing was found although
   a count is not zero. *)
RECURSIVE SelectRetries(_, _, _, _)
SelectRetries(qs, pl, n, calls) ==
    IF n > Len(Priority)
    THEN IF /\ \E k \in QueueKinds : TopCount(k) # 0
            /\ Len(calls) < 2 * Len(Priority)
            /\ pl # AllDescendants
         THEN SelectRetries(qs, AllDescendants, 1, calls)
         ELSE [result |-> None, queues |-> qs, probeList |-> pl,
               kinds |-> calls]
    ELSE LET k  == Priority[n]
             r  == IF TopCount(k) = 0
                   THEN [queues |-> qs, probeList |-> pl, asked |-> <<>>]
                   ELSE Refill(qs, pl, k)
             c  == IF TopCount(k) = 0 THEN calls ELSE Append(calls, k)
             q  == DropHidden(r.queues[k])
             q2 == [r.queues EXCEPT ![k] = q]
         IN  IF q # <<>>
             THEN [result |-> Head(q), queues |-> q2,
                   probeList |-> r.probeList, kinds |-> c]
             ELSE SelectRetries(q2, r.probeList, n + 1, c)

(* The card returned taken out of its queue. *)
RECURSIVE SelectPops(_, _, _, _)
SelectPops(qs, pl, n, calls) ==
    IF n > Len(Priority)
    THEN [result |-> None, queues |-> qs, probeList |-> pl, kinds |-> calls]
    ELSE LET k  == Priority[n]
             r  == IF TopCount(k) = 0
                   THEN [queues |-> qs, probeList |-> pl, asked |-> <<>>]
                   ELSE Refill(qs, pl, k)
             c  == IF TopCount(k) = 0 THEN calls ELSE Append(calls, k)
             q  == DropHidden(r.queues[k])
             q2 == [r.queues EXCEPT ![k] = q]
         IN  IF q # <<>>
             THEN [result |-> Head(q), queues |-> [q2 EXCEPT ![k] = Tail(q)],
                   probeList |-> r.probeList, kinds |-> c]
             ELSE SelectPops(q2, r.probeList, n + 1, c)

(* getNextItem: the kinds in priority order; the refill is skipped when the
   count of the kind is zero; the front of the first queue with a card is
   returned and stays in its queue. *)
RECURSIVE Select(_, _, _, _)
Select(qs, pl, n, calls) ==
    IF n > Len(Priority)
    THEN [result |-> None, queues |-> qs, probeList |-> pl, kinds |-> calls]
    ELSE LET k  == Priority[n]
             r  == IF TopCount(k) = 0
                   THEN [queues |-> qs, probeList |-> pl, asked |-> <<>>]
                   ELSE Refill(qs, pl, k)
             c  == IF TopCount(k) = 0 THEN calls ELSE Append(calls, k)
             q  == DropHidden(r.queues[k])
             q2 == [r.queues EXCEPT ![k] = q]
         IN  IF q # <<>>
             THEN [result |-> Head(q), queues |-> q2,
                   probeList |-> r.probeList, kinds |-> c]
             ELSE Select(q2, r.probeList, n + 1, c)

----------------------------------------------------------------------------
(* The field editor: the state of the page when the script is loaded *)

Fields == 0 .. (NFields - 1)

(* null: no field, no timer, no drop target. *)
Null == -1

TimerIds == 1 .. MaxTimers

(* currentField, changeTimer and dropTarget are the variables of the script;
   timeouts is the set of timers the browser holds armed and timerCount the
   number of timers handed out so far; activeElement is the field that is
   document.activeElement (Null for another widget or the body),
   windowActive tells whether the window has the focus, buttonsEnabled
   whether the buttons of the toolbar are enabled. The other fields record
   the last event: its name and argument, the handlers it called in order,
   the commands sent to Python with pycmd, whether it ended in a TypeError,
   disturbed, the armed timers after whose arming a key or input event, a
   save or a blur has occurred, and superseded, the armed timers after whose
   arming triggerKeyTimer() or saveField() has been called. *)
EditorLoaded ==
    [currentField |-> Null, changeTimer |-> Null, dropTarget |-> Null,
     timeouts |-> {}, timerCount |-> 0,
     activeElement |-> Null, windowActive |-> TRUE, buttonsEnabled |-> FALSE,
     ev |-> "load", arg |-> Null, calls |-> <<>>, sent |-> <<>>,
     thrown |-> FALSE, disturbed |-> {}, superseded |-> {}]

----------------------------------------------------------------------------
(* The operations *)

(* The record of an operation: its name and argument, its result, the kinds
   of queue concerned (the refills getNextItem called, the kind of the card
   answered), the items that left the queues, the calls it made in order
   (the decks a refill queried, the steps of an answer), and for getNextItem
   the name of the operation before it. *)
Op(name, arg, result, kinds, removed) ==
    [op |-> name, arg |-> arg, result |-> result, kinds |-> kinds,
     removed |-> removed, calls |-> <<>>,
     after |-> IF name = "getNextItem" THEN last.op ELSE ""]

NoOp ==
    [op |-> "init", arg |-> None, result |-> None, kinds |-> <<>>,
     removed |-> {}, calls |-> <<>>, after |-> ""]

(* No work is running in the background. *)
NoWork ==
    [work |-> "none", gen |-> 0, kind |-> "", items |-> <<>>,
     probeList |-> <<>>, tree |-> <<>>]

(* The collections a session starts from: the last deck is a root that holds
   no card, every deck has the same limit. *)
SessionForests == {p \in Forests : p[NDecks] = 0}

SessionDecks == 1 .. (NDecks - 1)

SessionLimits == {MaxLimit - 1, NoLimit}

Init ==
    /\ parent \in SessionForests
    /\ \E v \in SessionLimits :
          limit = [d \in Decks |-> [k \in LimitKinds |-> v]]
    /\ deckOf \in [Items -> SessionDecks]
    /\ ctype \in [Items -> QueueKinds]
    /\ hidden = [i \in Items |-> "none"]
    /\ burySiblings \in BOOLEAN
    /\ scope = 1
    /\ queues = EmptyQueues
    /\ probeList = AllDescendants
    /\ generation = 0
    /\ tree = BuildTree
    /\ inflight = NoWork
    /\ editor = EditorLoaded
    /\ last = NoOp

(* getNextItem() *)
GetNextItem ==
    LET r == Select(queues, probeList, 1, <<>>)
    IN  /\ queues' = r.queues
        /\ probeList' = r.probeList
        /\ last' = Op("getNextItem", None, r.result, r.kinds,
                      Queued(queues) \ Queued(r.queues))
        /\ UNCHANGED <<storageVars, scope, generation, tree, inflight, editor>>

(* refill(kind) *)
RefillQueue(k) ==
    LET r == Refill(queues, probeList, k)
    IN  /\ queues' = r.queues
        /\ probeList' = r.probeList
        /\ last' = [Op("refill", k, IF r.result THEN 1 ELSE None,
                         <<k>>, {}) EXCEPT !.calls = r.asked]
        /\ UNCHANGED <<storageVars, scope, generation, tree, inflight, editor>>

(* consume(itemId) *)
ConsumeItem(x) ==
    /\ \E j \in Queued(queues) : NoteOf(j) = NoteOf(x)
    /\ queues' = Consume(queues, x)
    /\ last' = Op("consume", x, None, <<>>, Queued(queues) \ Queued(queues'))
    /\ UNCHANGED <<storageVars, scope, probeList, generation, tree, inflight, editor>>

(* deckCounts(deckId): the counts of new cards, of cards to review and of
   cards in learning that the current tree holds for the deck. *)
DeckCounts(d) ==
    /\ last' = [Op("deckCounts", d, None, <<>>, {}) EXCEPT
                   !.calls = <<tree["new"].disp[d], tree["rev"].disp[d],
                               tree["lrn"].disp[d]>>]
    /\ UNCHANGED <<storageVars, scope, queues, probeList, generation, tree,
                   inflight, editor>>

(* The limits of the card's deck and of its ancestors after one more card
   of the kind was taken today. *)
TakeOne(d, k) ==
    [a \in Decks |->
        IF (a = d \/ a \in Ancestors(parent, d)) /\ k \in LimitKinds
        THEN [limit[a] EXCEPT ![k] = IF @ > 0 THEN @ - 1 ELSE @]
        ELSE limit[a]]

(* The counts of all kinds go down with each review. *)
DecrementAllKinds(t, k) ==
    [j \in CountKinds |-> [t[j] EXCEPT !.disp[scope] = @ - 1]]

(* The count of the selected deck is decremented when a card is reviewed. *)
Decrement(t, k) == [t EXCEPT ![CountKindOf(k)].disp[scope] = @ - 1]

(* No sibling is ever buried by an answer. *)
BurySiblingsNever(x) == hidden

(* The siblings of the card answered are buried when the option is set. *)
BurySiblings(x) ==
    [j \in Items |->
        IF /\ burySiblings
           /\ j \in Siblings(x) \ {x}
           /\ Classification(j) \in {"new", "rev"}
        THEN "buried" ELSE hidden[j]]

(* The queues are cleaned before the review is computed and saved. *)
AnswerStepsConsumeFirst == <<"consume", "computeNextState", "persist">>

(* The steps of an answer, in order. *)
AnswerSteps == <<"computeNextState", "persist", "consume">>

(* One step of the answer of card x: the next state is computed, or the
   state computed is saved in storage with the counts of the review, or the
   card and its siblings leave the queues. *)
AnswerStep(s, step, x, grade) ==
    LET t == [s EXCEPT !.calls = Append(@, step)]
    IN  CASE step = "computeNextState" ->
                [t EXCEPT !.next = ComputeNextState(s.ctype[x], grade)]
          [] step = "persist" ->
                IF s.next = "" THEN t
                ELSE [t EXCEPT !.ctype = [s.ctype EXCEPT ![x] = s.next],
                               !.hidden = BurySiblings(x),
                               !.limit = TakeOne(deckOf[x], Classification(x)),
                               !.tree = Decrement(tree, Classification(x))]
          [] step = "consume" ->
                [t EXCEPT !.queues = Consume(s.queues, x)]

RECURSIVE RunAnswer(_, _, _, _)
RunAnswer(s, n, x, grade) ==
    IF n > Len(AnswerSteps) THEN s
    ELSE RunAnswer(AnswerStep(s, AnswerSteps[n], x, grade), n + 1, x, grade)

(* answer(itemId, grade): the card the reviewer got from getNextItem. *)
Answer(x, grade) ==
    /\ last.op = "getNextItem"
    /\ last.result = x
    /\ Classification(x) \in QueueKinds
    /\ TopCount(Classification(x)) > -MaxOvercount
    /\ LET r == RunAnswer([ctype |-> ctype, hidden |-> hidden, limit |-> limit,
                           tree |-> tree, queues |-> queues, next |-> "",
                           calls |-> <<>>], 1, x, grade)
       IN  /\ ctype' = r.ctype
           /\ hidden' = r.hidden
           /\ limit' = r.limit
           /\ tree' = r.tree
           /\ queues' = r.queues
           /\ last' = [Op("answer", x, None, <<Classification(x)>>,
                          Queued(queues) \ Queued(r.queues))
                          EXCEPT !.calls = r.calls]
    /\ UNCHANGED <<parent, deckOf, burySiblings, scope, probeList, generation,
                   inflight, editor>>

(* The generation counter going down. *)
InvalidatedGenerationDown ==
    [queues |-> EmptyQueues, probeList |-> AllDescendants,
     generation |-> generation - 1]

(* The generation counter left as it was. *)
InvalidatedSameGeneration ==
    [queues |-> EmptyQueues, probeList |-> AllDescendants,
     generation |-> generation]

(* The list of decks left as it was. *)
InvalidatedKeepsDecks ==
    [queues |-> EmptyQueues, probeList |-> probeList,
     generation |-> generation + 1]

(* The session after invalidate(): the queues emptied, the list of decks
   filled again with all descendants of the selected deck, the generation
   counter bumped. *)
Invalidated ==
    [queues |-> EmptyQueues, probeList |-> AllDescendants,
     generation |-> generation + 1]

(* invalidate() *)
Invalidate ==
    /\ generation < MaxGen
    /\ queues' = Invalidated.queues
    /\ probeList' = Invalidated.probeList
    /\ generation' = Invalidated.generation
    /\ last' = Op("invalidate", None, None, <<>>, Queued(queues))
    /\ UNCHANGED <<storageVars, scope, tree, inflight, editor>>

(* The full reset that follows a change of the collection. *)
FullReset(name, arg) ==
    /\ generation < MaxGen
    /\ UNCHANGED <<parent, deckOf, burySiblings, scope, inflight, editor>>
    /\ queues' = Invalidated.queues
    /\ probeList' = Invalidated.probeList
    /\ generation' = Invalidated.generation
    /\ tree' = BuildTree'
    /\ last' = Op(name, arg, None, <<>>, Queued(queues))

(* reset() *)
Reset ==
    /\ UNCHANGED <<limit, ctype, hidden>>
    /\ FullReset("reset", None)

Suspend(i) ==
    /\ hidden[i] # "suspended"
    /\ hidden' = [hidden EXCEPT ![i] = "suspended"]
    /\ UNCHANGED <<limit, ctype>>
    /\ FullReset("suspend", i)

Unsuspend(i) ==
    /\ hidden[i] = "suspended"
    /\ hidden' = [hidden EXCEPT ![i] = "none"]
    /\ UNCHANGED <<limit, ctype>>
    /\ FullReset("unsuspend", i)

Bury(i) ==
    /\ hidden[i] = "none"
    /\ hidden' = [hidden EXCEPT ![i] = "buried"]
    /\ UNCHANGED <<limit, ctype>>
    /\ FullReset("bury", i)

Unbury ==
    /\ \E i \in Items : hidden[i] = "buried"
    /\ hidden' = [i \in Items |-> IF hidden[i] = "buried" THEN "none" ELSE hidden[i]]
    /\ UNCHANGED <<limit, ctype>>
    /\ FullReset("unbury", None)

EditLimit(d, k, v) ==
    /\ limit[d][k] # v
    /\ limit' = [limit EXCEPT ![d][k] = v]
    /\ UNCHANGED <<ctype, hidden>>
    /\ FullReset("editLimit", d)

(* Undo of the review just made: the card gets back the classification it
   had, its deck and the ancestors get back the card taken from their
   limit, the siblings buried are shown again. *)
Undo ==
    /\ last.op = "answer"
    /\ ctype' = [ctype EXCEPT ![last.arg] = last.kinds[1]]
    /\ hidden' = [j \in Items |->
                    IF j \in Siblings(last.arg) /\ hidden[j] = "buried"
                    THEN "none" ELSE hidden[j]]
    /\ limit' = [a \in Decks |->
                   IF /\ a = deckOf[last.arg] \/ a \in Ancestors(parent, deckOf[last.arg])
                      /\ last.kinds[1] \in LimitKinds
                      /\ limit[a][last.kinds[1]] # NoLimit
                   THEN [limit[a] EXCEPT ![last.kinds[1]] = @ + 1]
                   ELSE limit[a]]
    /\ FullReset("undo", last.arg)

(* The card is given another due date by hand. *)
Reschedule(i, c) ==
    /\ ctype[i] # c
    /\ ctype' = [ctype EXCEPT ![i] = c]
    /\ UNCHANGED <<limit, hidden>>
    /\ FullReset("reschedule", i)

(* The content of the card is edited; its scheduling is not. *)
EditItem(i) ==
    /\ UNCHANGED <<limit, ctype, hidden>>
    /\ FullReset("editItem", i)

(* The reviewer: it asks for a card, answers it, and the collection is reset
   now and then. *)
Next ==
    \/ GetNextItem
    \/ \E x \in Items, g \in Grades : Answer(x, g)
    \/ Invalidate
    \/ Reset

Spec == Init /\ [][Next]_vars

(* The queues over a collection that does not change: getNextItem, refill,
   consume and invalidate called in any order. *)
NextQueue ==
    \/ GetNextItem
    \/ \E k \in QueueKinds : RefillQueue(k)
    \/ \E x \in Items : ConsumeItem(x)
    \/ Invalidate

InitQueue == Init /\ ~burySiblings

SpecQueue == InitQueue /\ [][NextQueue]_vars

(* The changes of the collection, each followed by a full reset. *)
Mutation ==
    \/ Undo
    \/ \E i \in Items : Suspend(i)
    \/ \E i \in Items : Unsuspend(i)
    \/ \E i \in Items : Bury(i)
    \/ Unbury
    \/ \E i \in Items, c \in {"new", "rev"} : Reschedule(i, c)
    \/ \E d \in SessionDecks, k \in LimitKinds : EditLimit(d, k, 0)
    \/ \E i \in Items : EditItem(i)

(* The session as its callers see it: the reviewer and the changes of the
   collection. The collection it starts from has one limit for all decks
   and may hold a suspended or a buried card. *)
InitSession ==
    /\ parent \in SessionForests
    /\ limit = [d \in Decks |-> [k \in LimitKinds |-> MaxLimit - 1]]
    /\ deckOf \in [Items -> SessionDecks]
    /\ ctype \in [Items -> {"new", "rev"}]
    /\ hidden \in {h \in [Items -> Hiddens] : h[1] = "none" /\ h[2] = "none"}
    /\ burySiblings = TRUE
    /\ scope = 1
    /\ queues = EmptyQueues
    /\ probeList = AllDescendants
    /\ generation = 0
    /\ tree = BuildTree
    /\ inflight = NoWork
    /\ editor = EditorLoaded
    /\ last = NoOp

NextSession ==
    \/ GetNextItem
    \/ \E x \in Items, g \in Grades : Answer(x, g)
    \/ Invalidate
    \/ Reset
    \/ Mutation

SpecSession == InitSession /\ [][NextSession]_vars

(* Every operation in any order: the reviewer, the refill and consume of
   the queues called directly, and the changes of the collection. The two
   siblings are new cards of the selected deck. *)
InitOps ==
    /\ InitSession
    /\ deckOf[1] = 1 /\ deckOf[2] = 1
    /\ ctype[1] = "new" /\ ctype[2] = "new"
    /\ hidden[3] # "buried"

NextOps ==
    \/ NextSession
    \/ \E k \in QueueKinds : RefillQueue(k)
    \/ \E x \in Items : ConsumeItem(x)
    \/ \E d \in Decks : DeckCounts(d)

SpecOps == InitOps /\ [][NextOps]_vars

----------------------------------------------------------------------------
(* The session between a change of storage and the reset that must follow
   it: a card is suspended or buried in storage and the queues, the list of
   decks and the tree are still those computed before. *)

SuspendInStorage(i) ==
    /\ hidden[i] = "none"
    /\ hidden' = [hidden EXCEPT ![i] = "suspended"]
    /\ last' = Op("suspendInStorage", i, None, <<>>, {})
    /\ UNCHANGED <<parent, limit, deckOf, ctype, burySiblings, scope, queues,
                   probeList, generation, tree, inflight, editor>>

BuryInStorage(i) ==
    /\ hidden[i] = "none"
    /\ hidden' = [hidden EXCEPT ![i] = "buried"]
    /\ last' = Op("buryInStorage", i, None, <<>>, {})
    /\ UNCHANGED <<parent, limit, deckOf, ctype, burySiblings, scope, queues,
                   probeList, generation, tree, inflight, editor>>

InitStale ==
    /\ Init
    /\ deckOf = [i \in Items |-> 1]
    /\ ctype \in [Items -> {"new", "rev", "lrnNow"}]
    /\ limit[1]["new"] = NoLimit
    /\ burySiblings

NextStale ==
    \/ GetNextItem
    \/ \E x \in Items, g \in Grades : Answer(x, g)
    \/ \E i \in Items : SuspendInStorage(i)
    \/ \E i \in Items : BuryInStorage(i)
    \/ Reset

SpecStale == InitStale /\ [][NextStale]_vars

----------------------------------------------------------------------------
(* Work in the background: the storage queries of a refill and the walk of
   the tree run off the caller's thread; their result is applied when it is
   ready, unless the session has moved to another generation meanwhile. *)

Idle == inflight.work = "none"

(* No result is ever found stale. *)
StaleNever(w) == FALSE

(* The result was computed under a generation that is not the current one. *)
Stale(w) == w.gen # generation

(* A refill of the empty queue of kind k starts: storage is queried. *)
StartRefill(k) ==
    /\ Idle
    /\ queues[k] = <<>>
    /\ LET r == Probe(probeList, k, <<>>)
       IN  inflight' = [work |-> "refill", gen |-> generation, kind |-> k,
                        items |-> r.items, probeList |-> r.probeList,
                        tree |-> <<>>]
    /\ last' = Op("startRefill", k, None, <<k>>, {})
    /\ UNCHANGED <<storageVars, scope, queues, probeList, generation, tree,
                   editor>>

(* A rebuild of the deck due tree starts: the tree is computed from storage. *)
StartRebuild ==
    /\ Idle
    /\ inflight' = [work |-> "rebuild", gen |-> generation, kind |-> "",
                    items |-> <<>>, probeList |-> <<>>, tree |-> BuildTree]
    /\ last' = Op("startRebuild", None, None, <<>>, {})
    /\ UNCHANGED <<storageVars, scope, queues, probeList, generation, tree,
                   editor>>

(* The result of the work is ready: it is applied to the session, or dropped
   without a word when it is stale. *)
CompleteWork ==
    /\ ~Idle
    /\ inflight' = NoWork
    /\ IF Stale(inflight)
       THEN UNCHANGED <<queues, probeList, tree>>
       ELSE IF inflight.work = "refill"
            THEN /\ queues' = [queues EXCEPT ![inflight.kind] = @ \o inflight.items]
                 /\ probeList' = inflight.probeList
                 /\ UNCHANGED tree
            ELSE /\ tree' = inflight.tree
                 /\ UNCHANGED <<queues, probeList>>
    /\ last' = Op("complete", inflight.gen,
                  IF Stale(inflight) THEN None ELSE 1,
                  IF inflight.work = "refill" THEN <<inflight.kind>> ELSE <<>>,
                  {inflight.items[n] : n \in DOMAIN inflight.items})
    /\ UNCHANGED <<storageVars, scope, generation, editor>>

(* The callers are serialized: they wait for the work in the background,
   except the resets, which supersede it. *)
NextAsync ==
    \/ \E k \in QueueKinds : StartRefill(k)
    \/ StartRebuild
    \/ CompleteWork
    \/ Invalidate
    \/ \E i \in Items : Suspend(i)
    \/ Idle /\ GetNextItem
    \/ Idle /\ \E x \in Items, g \in Grades : Answer(x, g)

InitAsync == InitOps

SpecAsync == InitAsync /\ [][NextAsync]_vars

----------------------------------------------------------------------------
(* The deck due tree alone: every forest, every limit, every raw count. *)

InitTree ==
    /\ parent \in Forests
    /\ \E lim \in [Decks -> LimitValues] :
          limit = [d \in Decks |-> [k \in LimitKinds |-> lim[d]]]
    /\ deckOf = [i \in Items |-> 1]
    /\ ctype = [i \in Items |-> "done"]
    /\ hidden = [i \in Items |-> "none"]
    /\ burySiblings = FALSE
    /\ scope = 1
    /\ queues = EmptyQueues
    /\ probeList = AllDescendants
    /\ generation = 0
    /\ tree = BuildTree
    /\ inflight = NoWork
    /\ editor = EditorLoaded
    /\ last = NoOp

(* The tree is computed from the raw counts r that storage reports for the
   decks, the same for each kind of card. *)
ComputeTree(r) ==
    /\ last.op = "init"
    /\ tree' = DeckDueTree(parent, limit,
                  [d \in Decks |-> [k \in CountKinds |-> r[d]]])
    /\ last' = Op("computeTree", None, None, <<>>, {})
    /\ UNCHANGED <<storageVars, scope, queues, probeList, generation, inflight, editor>>

NextTree == \E r \in [Decks -> 0 .. MaxRaw] : ComputeTree(r)

SpecTree == InitTree /\ [][NextTree]_vars

----------------------------------------------------------------------------
(* The field editor: the handlers of editor.ts as functions of the state of
   the page. The text of the fields is not part of the state. *)

Called(e, h) == [e EXCEPT !.calls = Append(@, h)]

pycmd(e, type, field) == [e EXCEPT !.sent = Append(@, <<type, field>>)]

(* A null dereference: the handler stops there. *)
Throw(e) == [e EXCEPT !.thrown = TRUE]

(* The highlighting of the style buttons is not part of the state. *)
updateButtonState(e) == e

disableButtons(e) == [e EXCEPT !.buttonsEnabled = FALSE]

enableButtons(e) == [e EXCEPT !.buttonsEnabled = TRUE]

clearChangeTimer(e) ==
    IF e.changeTimer # Null
    THEN [e EXCEPT !.timeouts = @ \ {e.changeTimer}, !.changeTimer = Null]
    ELSE e

(* The command is sent although there is no current field. *)
saveFieldUnguarded(e0, type) ==
    pycmd(clearChangeTimer(Called(e0, "saveField")), type, e0.currentField)

saveField(e0, type) ==
    LET e == clearChangeTimer(Called(e0, "saveField"))
    IN  IF e.currentField = Null THEN e
        ELSE pycmd(e, type, e.currentField)

(* The new timer is armed and the one before is left armed. *)
triggerKeyTimerKeepsOld(e0) ==
    LET e  == Called(e0, "triggerKeyTimer")
        id == e.timerCount + 1
    IN  [e EXCEPT !.changeTimer = id, !.timeouts = @ \cup {id},
                  !.timerCount = id]

triggerKeyTimer(e0) ==
    LET e  == clearChangeTimer(Called(e0, "triggerKeyTimer"))
        id == e.timerCount + 1
    IN  [e EXCEPT !.changeTimer = id, !.timeouts = @ \cup {id},
                  !.timerCount = id]

(* What the timer runs 600 ms after it was armed. *)
TimerCallback(e) == saveField(updateButtonState(e), "key")

(* The field is given up whatever the active element is. *)
onBlurAlwaysLeaves(e0) ==
    LET e == Called(e0, "onBlur")
    IN  IF e.currentField = Null THEN e
        ELSE disableButtons([saveField(e, "blur") EXCEPT !.currentField = Null])

onBlur(e0) ==
    LET e == Called(e0, "onBlur")
    IN  IF e.currentField = Null THEN e
        ELSE IF e.activeElement = e.currentField
             THEN saveField(e, "key")
             ELSE disableButtons(
                      [saveField(e, "blur") EXCEPT !.currentField = Null])

(* The caret and the scrolling are not part of the state. *)
onFocus(e0, elem) ==
    LET e == Called(e0, "onFocus")
    IN  IF e.currentField = elem THEN e
        ELSE enableButtons(
                 pycmd([e EXCEPT !.currentField = elem], "focus", elem))

(* elem.blur(): the field loses the focus, and its blur event runs onBlur
   while the active element is the body. *)
ElementBlur(e, elem) ==
    IF e.activeElement # elem THEN e
    ELSE onBlur([e EXCEPT !.activeElement = Null])

(* elem.focus(): the field that had the focus gets its blur event, then elem
   is the active element and gets its focus event. The events may not fire
   when the window is not active: fires tells whether they do. *)
ElementFocus(e, elem, fires) ==
    IF e.activeElement = elem THEN e
    ELSE IF ~fires THEN [e EXCEPT !.activeElement = elem]
    ELSE LET b == IF e.activeElement # Null
                  THEN onBlur([e EXCEPT !.activeElement = Null])
                  ELSE e
         IN  onFocus([b EXCEPT !.activeElement = elem], elem)

saveNow(e0, keepFocus) ==
    LET e == Called(e0, "saveNow")
    IN  IF e.currentField = Null THEN e
        ELSE LET c == clearChangeTimer(e)
             IN  IF keepFocus THEN saveField(c, "key")
                 ELSE ElementBlur(c, c.currentField)

focusField(e, n, fires) ==
    IF n = Null THEN e ELSE ElementFocus(e, n, fires)

focusPrevious(e, fires) ==
    IF e.currentField = Null THEN e
    ELSE LET previous == e.currentField - 1
         IN  IF previous >= 0 THEN focusField(e, previous, fires) ELSE e

(* The keys that onKey tells apart; a mouse button is one of the others. *)
Keys == {"esc", "shiftTab", "other"}

onKey(e0, key, macIntel) ==
    LET e == Called(e0, "onKey")
    IN  IF key = "esc"
        THEN IF e.currentField = Null THEN Throw(e)
             ELSE ElementBlur(e, e.currentField)
        ELSE IF macIntel /\ key = "shiftTab"
             THEN focusPrevious(e, TRUE)
             ELSE triggerKeyTimer(e)

onInput(e0) ==
    LET e == Called(e0, "onInput")
    IN  IF e.currentField = Null THEN Throw(e) ELSE triggerKeyTimer(e)

setFormat(e0, nosave) ==
    LET e == Called(e0, "setFormat")
    IN  IF nosave THEN e ELSE updateButtonState(saveField(e, "key"))

onDragOver(e, elem) == [e EXCEPT !.dropTarget = elem]

makeDropTargetCurrent(e0, fires) ==
    LET e == Called(e0, "makeDropTargetCurrent")
    IN  IF e.dropTarget = Null THEN Throw(e)
        ELSE [ElementFocus(e, e.dropTarget, fires) EXCEPT
                 !.currentField = e.dropTarget]

----------------------------------------------------------------------------
(* The field editor: the events of the page *)

Begin(name, arg) ==
    [editor EXCEPT !.ev = name, !.arg = arg, !.calls = <<>>, !.sent = <<>>,
                   !.thrown = FALSE]

(* A key or input event, a save or a blur is among the calls. *)
Disturbing(calls) ==
    \E n \in DOMAIN calls :
        calls[n] \in {"onKey", "onInput", "saveField", "onBlur"}

(* triggerKeyTimer() or saveField() is among the calls. *)
Superseding(calls) ==
    \E n \in DOMAIN calls : calls[n] \in {"triggerKeyTimer", "saveField"}

(* The event is over: the timers that were armed before it and are still
   armed are noted when the event was a key, an input, a save or a blur,
   and when it called triggerKeyTimer() or saveField(). *)
Step(e) ==
    /\ editor' = [e EXCEPT
                     !.disturbed =
                         (IF Disturbing(e.calls)
                          THEN editor.disturbed \cup editor.timeouts
                          ELSE editor.disturbed) \cap e.timeouts,
                     !.superseded =
                         (IF Superseding(e.calls)
                          THEN editor.superseded \cup editor.timeouts
                          ELSE editor.superseded) \cap e.timeouts]
    /\ UNCHANGED schedulerVars

(* Whether a call of focus() from Python fires the events. *)
Fires == IF editor.windowActive THEN {TRUE} ELSE BOOLEAN

(* The user clicks or tabs into field f. *)
UserFocus(f) ==
    /\ editor.windowActive
    /\ editor.activeElement # f
    /\ Step(ElementFocus(Begin("focus", f), f, TRUE))

(* The user moves the focus from a field to another widget of the window. *)
UserLeave ==
    /\ editor.windowActive
    /\ editor.activeElement \in Fields
    /\ Step(onBlur([Begin("blur", editor.activeElement) EXCEPT
                       !.activeElement = Null]))

(* The window loses the focus: the active element stays the same and, when
   it is a field, gets a blur event. *)
WindowBlur ==
    /\ editor.windowActive
    /\ LET b == [Begin("windowBlur", editor.activeElement) EXCEPT
                    !.windowActive = FALSE]
       IN  Step(IF editor.activeElement \in Fields THEN onBlur(b) ELSE b)

(* The window gets the focus back, and the active field its focus event. *)
WindowFocus ==
    /\ ~editor.windowActive
    /\ LET b == [Begin("windowFocus", editor.activeElement) EXCEPT
                    !.windowActive = TRUE]
       IN  Step(IF editor.activeElement \in Fields
                THEN onFocus(b, editor.activeElement) ELSE b)

(* A key goes down in the field that has the focus. *)
KeyDown(key, macIntel) ==
    /\ editor.windowActive
    /\ editor.activeElement \in Fields
    /\ editor.timerCount < MaxTimers
    /\ Step(onKey(Begin("keydown", editor.activeElement), key, macIntel))

(* A mouse button goes up over field f, which may not have the focus. *)
MouseUp(f) ==
    /\ editor.windowActive
    /\ editor.timerCount < MaxTimers
    /\ Step(onKey(Begin("mouseup", f), "other", FALSE))

(* The text of the field that has the focus changes. *)
Input ==
    /\ editor.windowActive
    /\ editor.activeElement \in Fields
    /\ editor.timerCount < MaxTimers
    /\ Step(onInput(Begin("input", editor.activeElement)))

(* An armed timer goes off. *)
TimerFires(id) ==
    /\ id \in editor.timeouts
    /\ Step(TimerCallback([Begin("timer", id) EXCEPT !.timeouts = @ \ {id}]))

(* Python asks for a save. *)
SaveNow(keepFocus) ==
    /\ keepFocus \in BOOLEAN
    /\ Step(saveNow(Begin("saveNow", Null), keepFocus))

(* A button of the toolbar or Python formats the selection. *)
SetFormat(nosave) ==
    /\ nosave \in BOOLEAN
    /\ Step(setFormat(Begin("setFormat", Null), nosave))

(* Python puts the focus in field n. *)
FocusField(n) ==
    \E fires \in Fires : Step(focusField(Begin("focusField", n), n, fires))

(* Something is dragged over field f. *)
OnDragOver(f) ==
    /\ editor.dropTarget # f
    /\ Step(onDragOver(Begin("dragover", f), f))

(* Python makes the field of the drop the current one. *)
MakeDropTargetCurrent ==
    \E fires \in Fires :
        Step(makeDropTargetCurrent(Begin("makeDropTargetCurrent", Null), fires))

(* The scheduler is left alone while the editor runs. *)
SchedulerAtRest ==
    /\ parent = [d \in Decks |-> 0]
    /\ limit = [d \in Decks |-> [k \in LimitKinds |-> NoLimit]]
    /\ deckOf = [i \in Items |-> 1]
    /\ ctype = [i \in Items |-> "done"]
    /\ hidden = [i \in Items |-> "none"]
    /\ burySiblings = FALSE
    /\ scope = 1
    /\ queues = EmptyQueues
    /\ probeList = AllDescendants
    /\ generation = 0
    /\ tree = BuildTree
    /\ inflight = NoWork
    /\ last = NoOp

InitEditor == SchedulerAtRest /\ editor = EditorLoaded

NextEditor ==
    \/ \E f \in Fields : UserFocus(f)
    \/ UserLeave
    \/ WindowBlur
    \/ WindowFocus
    \/ \E key \in Keys, macIntel \in BOOLEAN : KeyDown(key, macIntel)
    \/ \E f \in Fields : MouseUp(f)
    \/ Input
    \/ \E id \in TimerIds : TimerFires(id)
    \/ \E keepFocus \in BOOLEAN : SaveNow(keepFocus)
    \/ \E nosave \in BOOLEAN : SetFormat(nosave)
    \/ \E n \in Fields \cup {Null} : FocusField(n)
    \/ \E f \in Fields : OnDragOver(f)
    \/ MakeDropTargetCurrent

SpecEditor == InitEditor /\ [][NextEditor]_vars

----------------------------------------------------------------------------
(* Properties of the deck due tree, checked under SpecTree *)

(* a <= b for limits, a missing limit being larger than any limit. *)
LimitLE(a, b) == b = NoLimit \/ (a # NoLimit /\ a <= b)

(* n <= lim for a count n and a limit lim. *)
WithinLimit(n, lim) == lim = NoLimit \/ n <= lim

OwnLimit(d, k) == LimitsOf(limit, k)[d]

ChildrenShown(d, k) == SumOver(tree[k].disp, Children(parent, d))

(* C1: the effective limit of a root is its own limit, that of another deck
   is the smaller of its own limit and of its parent's effective limit; so
   it is at most the deck's own limit and at most the effective limit of
   every ancestor. *)
C1_EffectiveLimit ==
    \A k \in CountKinds : \A d \in Decks :
        LET e == tree[k].eff
        IN  /\ parent[d] = 0 => e[d] = OwnLimit(d, k)
            /\ parent[d] # 0 =>
                  /\ e[d] \in {OwnLimit(d, k), e[parent[d]]}
                  /\ LimitLE(e[d], e[parent[d]])
            /\ LimitLE(e[d], OwnLimit(d, k))
            /\ \A a \in Ancestors(parent, d) : LimitLE(e[d], e[a])

(* A deck below two ancestors whose own limit is larger than the limit it
   inherits from the root. *)
C1_Witness ==
    /\ last.op = "computeTree"
    /\ \E d \in Decks :
          /\ Cardinality(Ancestors(parent, d)) = 2
          /\ limit[d]["new"] = NoLimit
          /\ limit[parent[d]]["new"] = 2
          /\ limit[parent[parent[d]]]["new"] = 1
          /\ tree["new"].eff[d] = 1

(* C2: the count displayed by a deck is its own raw count plus the counts
   displayed by its children, cut to the deck's effective limit. *)
C2_DisplayedCount ==
    \A k \in CountKinds : \A d \in Decks :
        LET total == tree[k].raw[d] + ChildrenShown(d, k)
            lim   == tree[k].eff[d]
        IN  tree[k].disp[d] =
                IF lim # NoLimit /\ lim < total THEN lim ELSE total

(* A deck that adds to its own cards the count of a child that its limit
   has cut. *)
C2_Witness ==
    /\ last.op = "computeTree"
    /\ \E d \in Decks : \E c \in Children(parent, d) :
          /\ tree["new"].disp[c] < tree["new"].raw[c]
          /\ tree["new"].disp[c] > 0
          /\ tree["new"].raw[d] > 0
          /\ tree["new"].disp[d] = tree["new"].raw[d] + ChildrenShown(d, "new")

(* C3: a displayed count never exceeds the effective limit; it is at least
   the sum of the children's displayed counts when that sum is within the
   limit, and it is the limit otherwise. *)
C3_DisplayedWithinLimit ==
    \A k \in CountKinds : \A d \in Decks :
        LET lim == tree[k].eff[d]
        IN  /\ WithinLimit(tree[k].disp[d], lim)
            /\ WithinLimit(ChildrenShown(d, k), lim)
                  => tree[k].disp[d] >= ChildrenShown(d, k)
            /\ ~WithinLimit(ChildrenShown(d, k), lim) => tree[k].disp[d] = lim

(* A deck whose children together display more than its limit. *)
C3_Witness ==
    /\ last.op = "computeTree"
    /\ \E d \in Decks :
          /\ tree["rev"].eff[d] = 2
          /\ ChildrenShown(d, "rev") = 4
          /\ tree["rev"].disp[d] = 2

(* The decks "A", "A::B" and "A::C" of the documentation: at most three new
   cards a day in A, at most two in each child, five new cards in each child. *)
Scenario4 ==
    /\ last.op = "computeTree"
    /\ parent = <<0, 1, 1>>
    /\ limit[1]["new"] = 3 /\ limit[2]["new"] = 2 /\ limit[3]["new"] = 2
    /\ tree["new"].raw[2] = 5 /\ tree["new"].raw[3] = 5

(* C4: in that scenario both children display two new cards and A displays
   three, not the four its children display together. *)
C4_ClampedOnce ==
    Scenario4 =>
        /\ tree["new"].disp[2] = 2
        /\ tree["new"].disp[3] = 2
        /\ tree["new"].disp[1] = 3

C4_Witness == Scenario4 /\ tree["new"].raw[1] = 0 /\ tree["new"].disp[1] = 3

----------------------------------------------------------------------------
(* Properties of the queues *)

QueueOf(i) == {k \in QueueKinds : \E n \in DOMAIN queues[k] : queues[k][n] = i}

(* C5: right after consume(x) no queue holds x or a sibling of x. *)
C5_ConsumeRemovesSiblings ==
    last.op = "consume" =>
        \A k \in QueueKinds : \A n \in DOMAIN queues[k] :
            NoteOf(queues[k][n]) # NoteOf(last.arg)

(* consume took two siblings out of two different queues. *)
C5_Witness ==
    /\ last.op = "consume"
    /\ \E i, j \in last.removed : NoteOf(i) = NoteOf(j) /\ ctype[i] # ctype[j]
    /\ Queued(queues) # {}

(* Two new siblings x and y of one deck that had two new cards and a limit
   of two when the counts were computed; x has just been answered and the
   answer took y out of the queues. *)
Scenario6(x, y) ==
    /\ last.op = "answer" /\ last.arg = x /\ last.kinds = <<"new">>
    /\ y # x /\ NoteOf(y) = NoteOf(x) /\ y \in last.removed
    /\ ctype[y] = "new" /\ deckOf[y] = deckOf[x]
    /\ tree["new"].eff[deckOf[x]] = 2
    /\ tree["new"].raw[deckOf[x]] = 2

(* The same two siblings before the answer: x is the card shown and both
   are in the new queue. *)
Scenario6Before(x, y) ==
    /\ last.op = "getNextItem" /\ last.result = x
    /\ y # x /\ NoteOf(y) = NoteOf(x)
    /\ ctype[x] = "new" /\ ctype[y] = "new" /\ deckOf[y] = deckOf[x]
    /\ "new" \in QueueOf(x) /\ "new" \in QueueOf(y)
    /\ tree["new"].eff[deckOf[x]] = 2
    /\ tree["new"].raw[deckOf[x]] = 2

(* C6 as stated: answer(x) removes the sibling y from the new queue, and the
   next getNextItem() does not return y. *)
C6_SiblingNotReturned ==
    [][\A x, y \in Items :
          /\ (Scenario6Before(x, y) /\ last'.op = "answer") =>
                 y \notin Queued(queues')
          /\ (Scenario6(x, y) /\ last'.op = "getNextItem") =>
                 /\ y \notin Queued(queues)
                 /\ last'.result # y]_vars

(* C6 amended: answer(x) removes the sibling y from the new queue; the next
   getNextItem() does not return y when the answer buried the siblings in
   storage; when it returns y, siblings are not buried and getNextItem
   called the refill of the new queue, which fetched y again. *)
C6_SiblingNotReturnedWhenBuried ==
    [][\A x, y \in Items :
          /\ (Scenario6Before(x, y) /\ last'.op = "answer") =>
                 y \notin Queued(queues')
          /\ (Scenario6(x, y) /\ last'.op = "getNextItem") =>
                 /\ y \notin Queued(queues)
                 /\ burySiblings =>
                       (last'.result # y /\ y \notin Queued(queues'))
                 /\ last'.result = y =>
                       (~burySiblings /\ \E n \in DOMAIN last'.kinds :
                                            last'.kinds[n] = "new")]_vars

(* getNextItem right after the answer of card 1, whose sibling 2 was new in
   the same deck (two new cards, limit two) and is now buried. *)
C6_Witness ==
    /\ last.op = "getNextItem" /\ last.after = "answer"
    /\ burySiblings
    /\ ctype[1] # "new" /\ ctype[2] = "new" /\ hidden[2] = "buried"
    /\ deckOf[1] = deckOf[2] /\ deckOf[3] # deckOf[1]
    /\ tree["new"].eff[deckOf[1]] = 2
    /\ tree["new"].raw[deckOf[1]] = 2
    /\ last.result # 2

IsDescendantList(pl) ==
    /\ \A n \in 1 .. (Len(pl) - 1) : pl[n] < pl[n + 1]
    /\ {pl[n] : n \in DOMAIN pl} =
          {d \in Decks : d = scope \/ scope \in Ancestors(parent, d)}

(* C7: after invalidate(), and after a full reset, the four queues are empty,
   the list of decks is the list of all descendants of the selected deck,
   and the generation counter is strictly greater than before. *)
C7_Invalidate ==
    [][last'.op \in {"invalidate", "reset"} =>
          /\ \A k \in QueueKinds : queues'[k] = <<>>
          /\ IsDescendantList(probeList')
          /\ generation' > generation]_vars

(* invalidate() emptied a queue that held a card, in a session with two
   decks to probe. *)
C7_Witness ==
    /\ last.op = "invalidate"
    /\ last.removed # {}
    /\ Len(probeList) = 2
    /\ generation = 1

FreshlyInvalidated ==
    last.op = "getNextItem" /\ last.after \in {"invalidate", "reset"}

(* C8 as stated: the getNextItem() that follows invalidate() calls refill at
   least once, whatever the counts of the tree. *)
C8_AlwaysRefills == FreshlyInvalidated => last.kinds # <<>>

(* C8 amended: the getNextItem() that follows invalidate() calls refill at
   least once exactly when the count of the selected deck is not zero for
   some kind; when all counts are zero it calls none. *)
C8_RefillsUnlessCountsZero ==
    FreshlyInvalidated =>
        (last.kinds # <<>> <=> \E k \in CountKinds : tree[k].disp[scope] # 0)

C8_Witness ==
    /\ FreshlyInvalidated
    /\ last.kinds # <<>>
    /\ last.result # None

(* The front of the first queue with a card, in priority order. *)
FrontOfFirst(qs) ==
    LET order == <<"lrnNow", "rev", "new", "lrnLater">>
        full  == {n \in 1 .. 4 : qs[order[n]] # <<>>}
    IN  IF full = {} THEN None
        ELSE Head(qs[order[CHOOSE n \in full : \A m \in full : n <= m]])

(* C9: two calls of getNextItem() in a row return the same result; the card
   returned stays at the front of its queue, and the second call does not
   change which card is at the front of the first queue with a card. *)
C9_Idempotent ==
    [][(last.op = "getNextItem" /\ last'.op = "getNextItem") =>
          /\ last'.result = last.result
          /\ FrontOfFirst(queues') = FrontOfFirst(queues)
          /\ last'.result = FrontOfFirst(queues')]_vars

(* A second call in a row that tried two refills and returned a card of a
   queue with two cards. *)
C9_Witness ==
    /\ last.op = "getNextItem" /\ last.after = "getNextItem"
    /\ last.result # None
    /\ Len(last.kinds) >= 2
    /\ \E k \in QueueKinds : Len(queues[k]) >= 2 /\ Head(queues[k]) = last.result

(* C10: getNextItem() returns the front of the first queue, in the order
   learning due now, review, new, learning due later, that has a card; the
   queues of the kinds before it are empty, each after its refill was called
   or skipped because the count of the kind is zero. *)
C10_PriorityOrder ==
    last.op = "getNextItem" =>
        LET order == <<"lrnNow", "rev", "new", "lrnLater">>
            Tried(k) == \/ TopCount(k) = 0
                        \/ \E n \in DOMAIN last.kinds : last.kinds[n] = k
        IN  /\ last.result = None =>
                  \A n \in 1 .. 4 : queues[order[n]] = <<>> /\ Tried(order[n])
            /\ last.result # None =>
                  \E n \in 1 .. 4 :
                      /\ queues[order[n]] # <<>>
                      /\ Head(queues[order[n]]) = last.result
                      /\ \A m \in 1 .. (n - 1) :
                            queues[order[m]] = <<>> /\ Tried(order[m])

(* A card in learning due later returned after the refill of each of the
   three kinds before it was called and left its queue empty. *)
C10_Witness ==
    /\ last.op = "getNextItem"
    /\ last.result # None
    /\ ctype[last.result] = "lrnLater"
    /\ Len(last.kinds) = 4

----------------------------------------------------------------------------
(* Properties of the session *)

AllEmpty(qs) == \A k \in QueueKinds : qs[k] = <<>>

ScopeCounts(t) == [k \in CountKinds |-> t[k].disp[scope]]

(* Nothing left to study: the queues are empty and the counts of the
   selected deck are zero. *)
Terminal ==
    AllEmpty(queues) /\ \A k \in CountKinds : ScopeCounts(tree)[k] = 0

(* C11: when the four queues are empty and the counts of the selected deck
   are all zero, getNextItem() returns the "none" sentinel, and so does
   every later getNextItem(): the session stays in that state through every
   step that leaves the counts as they are. *)
C11_TerminalNone ==
    [][Terminal =>
          /\ last'.op = "getNextItem" => last'.result = None
          /\ ScopeCounts(tree') = ScopeCounts(tree) => Terminal']_vars

(* getNextItem() returned "none" a second time in a row after the only card
   of the selected deck was answered, the counts being zero. *)
C11_Witness ==
    /\ Terminal
    /\ last.op = "getNextItem" /\ last.after = "getNextItem"
    /\ last.result = None
    /\ \E i \in Items : ctype[i] \in {"done", "lrnNow"}

(* C12: the result of a refill or of a rebuild started under a generation
   older than the current one is discarded when it is ready: the queues, the
   list of decks, the tree and the generation stay as they are, and the
   caller is told nothing. *)
C12_StaleDiscarded ==
    [][(last'.op = "complete" /\ inflight.gen < generation) =>
          /\ queues' = queues
          /\ probeList' = probeList
          /\ tree' = tree
          /\ generation' = generation
          /\ last'.result = None]_vars

(* A refill that had fetched cards under generation 0 was discarded under
   generation 1, the queues staying empty. *)
C12_Witness ==
    /\ last.op = "complete" /\ last.arg = 0 /\ generation = 1
    /\ last.kinds # <<>> /\ last.removed # {}
    /\ last.result = None
    /\ AllEmpty(queues)

InScope(d) == d = scope \/ scope \in Ancestors(parent, d)

(* C13: in every state of the session an item is at most once in the four
   queues taken together, and no queue holds an item that is suspended,
   buried, or in a deck outside the selected deck and its descendants. *)
C13_QueuesConsistent ==
    /\ \A k1, k2 \in QueueKinds :
          \A n1 \in DOMAIN queues[k1], n2 \in DOMAIN queues[k2] :
              queues[k1][n1] = queues[k2][n2] => (k1 = k2 /\ n1 = n2)
    /\ \A i \in Queued(queues) :
          /\ hidden[i] = "none"
          /\ InScope(deckOf[i])

(* After card 1 was answered its sibling 2 is buried and card 3 is due in a
   deck outside the selected deck; a refill has put card 1 alone in the
   queue of the cards in learning. *)
C13_Witness ==
    /\ last.op = "refill"
    /\ queues["lrnNow"] = <<1>>
    /\ hidden[2] = "buried" /\ ctype[2] = "new"
    /\ ~InScope(deckOf[3]) /\ hidden[3] = "none" /\ ctype[3] \in QueueKinds

(* C14: answer(x, grade) computes the next state of the card, then saves it
   in storage, then consumes the card: after the step the card has the state
   computed, it and its siblings are in no queue; the generation and the
   list of decks are as before, answer takes no part of the full reset. *)
C14_AnswerOrder ==
    [][last'.op = "answer" =>
          /\ last'.calls = <<"computeNextState", "persist", "consume">>
          /\ \E g \in Grades :
                ctype'[last'.arg] = ComputeNextState(ctype[last'.arg], g)
          /\ \A j \in Queued(queues') : NoteOf(j) # NoteOf(last'.arg)
          /\ generation' = generation
          /\ probeList' = probeList]_vars

(* A card was answered and its sibling left the queue with it, while the
   list of decks had lost a deck since the last reset. *)
C14_Witness ==
    /\ last.op = "answer"
    /\ Cardinality(last.removed) = 2
    /\ Len(probeList) < Len(AllDescendants)
    /\ ctype[last.arg] = "lrnNow"

ResetOps ==
    {"undo", "bury", "unbury", "suspend", "unsuspend", "reschedule",
     "editLimit", "editItem", "reset"}

(* C15: undo, bury, unbury, suspend, unsuspend, reschedule, the edit of a
   limit, the edit of a card and reset() each empty the queues, fill the
   list of decks with all descendants of the selected deck, bump the
   generation and rebuild the tree from storage; an answer does none of
   these, and no other step changes storage. *)
C15_FullReset ==
    [][/\ last'.op \in ResetOps =>
             /\ AllEmpty(queues')
             /\ IsDescendantList(probeList')
             /\ generation' > generation
             /\ tree' = DeckDueTree(parent', limit', RawCounts')
       /\ last'.op = "answer" =>
             /\ generation' = generation
             /\ probeList' = probeList
             /\ queues' = Consume(queues, last'.arg)
             /\ \A k \in CountKinds : tree'[k].raw = tree[k].raw
       /\ <<limit', ctype', hidden'>> # <<limit, ctype, hidden>> =>
             last'.op \in ResetOps \cup {"answer"}]_vars

(* The undo of an answer emptied a queue that held a card and rebuilt a tree
   whose counts differ from the ones the answer had left. *)
C15_Witness ==
    /\ last.op = "undo"
    /\ last.removed # {}
    /\ generation = 1
    /\ Len(probeList) = 2
    /\ tree["rev"].disp[scope] = 2

(* C16: getNextItem() calls the refill of each kind at most once; when the
   queues are empty after that it returns "none", even if a count of the
   selected deck is not zero; from then on, until an invalidate or a reset,
   the only step is getNextItem(), which returns "none" again and changes
   neither the queues nor the list of decks. *)
C16_NoRetry ==
    [][/\ last'.op = "getNextItem" =>
             /\ \A n1, n2 \in DOMAIN last'.kinds :
                   n1 # n2 => last'.kinds[n1] # last'.kinds[n2]
             /\ AllEmpty(queues') => last'.result = None
       /\ (/\ last.op = "getNextItem" /\ last.result = None
           /\ last'.op \notin ResetOps \cup {"invalidate"}) =>
             /\ last'.op = "getNextItem" /\ last'.result = None
             /\ queues' = queues
             /\ probeList' = probeList]_vars

(* getNextItem() returned "none" twice in a row: the list of decks is
   exhausted, a count of the selected deck is not zero and a card of the
   selected deck is due. *)
C16_Witness ==
    /\ last.op = "getNextItem" /\ last.after = "getNextItem"
    /\ last.result = None
    /\ probeList = <<>>
    /\ \E k \in QueueKinds : TopCount(k) # 0
    /\ \E i \in Items : Classification(i) \in QueueKinds /\ InScope(deckOf[i])

(* C17: refill(kind) called while the queue of the kind has cards queries
   no deck, leaves the four queues and the list of decks as they are and
   returns true; in every case it returns true exactly when the queue of the
   kind has cards after the call. *)
C17_RefillNoOp ==
    [][last'.op = "refill" =>
          /\ queues[last'.arg] # <<>> =>
                /\ queues' = queues
                /\ probeList' = probeList
                /\ last'.calls = <<>>
                /\ last'.result = 1
          /\ last'.result \in {1, None}
          /\ last'.result = 1 <=> queues'[last'.arg] # <<>>]_vars

(* refill was called on a queue that had a card, with two decks still to
   probe and another queue empty. *)
C17_Witness ==
    /\ last.op = "refill"
    /\ last.calls = <<>> /\ last.result = 1
    /\ queues[last.arg] # <<>>
    /\ Len(probeList) = 2
    /\ \E k \in QueueKinds : queues[k] = <<>>

(* C18: a deck without limit shows its own raw count plus the counts shown
   by its children, whenever no limit of an ancestor is smaller than that
   sum. *)
C18_UnlimitedPassThrough ==
    \A k \in LimitKinds : \A d \in Decks :
        LET total == tree[k].raw[d] + ChildrenShown(d, k)
        IN  (/\ OwnLimit(d, k) = NoLimit
             /\ \A a \in Ancestors(parent, d) :
                   OwnLimit(a, k) = NoLimit \/ total <= OwnLimit(a, k))
            => tree[k].disp[d] = total

(* A deck without limit, under a parent with a limit, shows its own cards
   and the cards of a child whose limit has cut the count. *)
C18_Witness ==
    /\ last.op = "computeTree"
    /\ \E d \in Decks : \E c \in Children(parent, d) :
          /\ OwnLimit(d, "new") = NoLimit
          /\ parent[d] # 0 /\ OwnLimit(parent[d], "new") # NoLimit
          /\ tree["new"].raw[d] > 0
          /\ tree["new"].disp[c] > 0
          /\ tree["new"].disp[c] < tree["new"].raw[c]
          /\ tree["new"].disp[d] = tree["new"].raw[d] + tree["new"].disp[c]

Due(d, k) == {i \in Items : deckOf[i] = d /\ Classification(i) = k}

(* The number of cards of kind k that deck d can give today. *)
Yield(d, k) ==
    LET lim == LimitRemaining(d, k)
        n   == Cardinality(Due(d, k))
    IN  IF lim = NoLimit \/ n <= lim THEN n ELSE lim

(* C19: refill(kind) on an empty queue queries the decks of the list in
   order, from the first, and stops at the first deck that gives cards of
   the kind: the decks queried before it give none, the queue holds cards
   of that deck only, as many as the deck gives, and no later deck is
   queried; when no deck gives a card all were queried and the queue stays
   empty. The other queues are not touched. *)
C19_RefillOneDeck ==
    [][(last'.op = "refill" /\ queues[last'.arg] = <<>>) =>
          LET k     == last'.arg
              asked == last'.calls
          IN  /\ Len(asked) <= Len(probeList)
              /\ \A n \in DOMAIN asked : asked[n] = probeList[n]
              /\ \A n \in 1 .. (Len(asked) - 1) : Yield(asked[n], k) = 0
              /\ \A j \in QueueKinds \ {k} : queues'[j] = queues[j]
              /\ IF queues'[k] = <<>>
                 THEN /\ Len(asked) = Len(probeList)
                      /\ \A n \in DOMAIN asked : Yield(asked[n], k) = 0
                 ELSE /\ Len(queues'[k]) = Yield(asked[Len(asked)], k)
                      /\ \A n \in DOMAIN queues'[k] :
                            queues'[k][n] \in Due(asked[Len(asked)], k)]_vars

(* A refill stopped at the first deck of the list, which gave cards; the next
   deck of the list, a descendant, has cards of the same kind that were not
   loaded. *)
C19_Witness ==
    /\ last.op = "refill" /\ last.result = 1
    /\ last.calls = <<1>>
    /\ probeList = <<1, 2>>
    /\ Due(2, last.arg) # {}
    /\ \A i \in Queued(queues) : deckOf[i] = 1

IsSuffix(a, b) ==
    Len(a) <= Len(b) /\ a = SubSeq(b, Len(b) - Len(a) + 1, Len(b))

DecksOf(pl) == {pl[n] : n \in DOMAIN pl}

(* C20: a step that is neither an invalidate nor a full reset leaves of the
   list of decks an end of what it was: no deck is added, none comes back.
   A refill queries decks of the list only; a deck it queried that gave no
   card is out of the list after it, and only refill and getNextItem take
   decks out. *)
C20_ProbeListShrinks ==
    [][last'.op \notin ResetOps \cup {"invalidate"} =>
          /\ IsSuffix(probeList', probeList)
          /\ probeList' # probeList => last'.op \in {"refill", "getNextItem"}
          /\ last'.op = "refill" =>
                \A n \in DOMAIN last'.calls :
                    /\ last'.calls[n] \in DecksOf(probeList)
                    /\ Yield(last'.calls[n], last'.arg) = 0 =>
                          last'.calls[n] \notin DecksOf(probeList')]_vars

(* Before any reset, a refill ran on a list that had lost the selected deck:
   the deck has cards of the kind asked, and it was not queried. *)
C20_Witness ==
    /\ last.op = "refill"
    /\ generation = 0
    /\ 1 \notin DecksOf(probeList)
    /\ Yield(1, last.arg) > 0
    /\ last.calls = <<2>>

(* C21: the generation counter never decreases, and it changes only in an
   invalidate or a full reset: getNextItem, refill, consume, answer and
   deckCounts leave it as it is. *)
C21_GenerationMonotone ==
    [][/\ generation' >= generation
       /\ generation' # generation =>
             last'.op \in ResetOps \cup {"invalidate"}
       /\ last'.op \in {"getNextItem", "refill", "consume", "answer",
                        "deckCounts"} => generation' = generation]_vars

(* deckCounts read the counts after a reset had bumped the generation and
   cards had been loaded and answered since. *)
C21_Witness ==
    /\ last.op = "deckCounts"
    /\ generation = 1
    /\ Queued(queues) # {}
    /\ \E i \in Items : ctype[i] \in {"lrnNow", "done"}

(* C22: getNextItem() calls no refill for a kind whose count for the
   selected deck is zero: the kind is not among the refills called, its
   queue stays empty if it was empty, and when the counts of all kinds are
   zero the queues and the list of decks are left as they are. *)
C22_ZeroCountSkipsRefill ==
    [][last'.op = "getNextItem" =>
          /\ \A n \in DOMAIN last'.kinds : TopCount(last'.kinds[n]) # 0
          /\ \A k \in QueueKinds :
                (TopCount(k) = 0 /\ queues[k] = <<>>) => queues'[k] = <<>>
          /\ (\A k \in QueueKinds : TopCount(k) = 0) =>
                (queues' = queues /\ probeList' = probeList)]_vars

(* getNextItem() left the queue of the cards in learning empty, its count
   being zero, although the first deck of the list has such a card. *)
C22_Witness ==
    /\ last.op = "getNextItem"
    /\ TopCount("lrnNow") = 0
    /\ queues["lrnNow"] = <<>>
    /\ probeList # <<>>
    /\ Yield(Head(probeList), "lrnNow") > 0

(* C23: the answer of a card of kind K takes exactly one from the count of
   kind K of the selected deck and leaves the counts of the other kinds as
   they are, whether the answer buries siblings or not; the raw counts and
   the limits held by the tree are not recomputed. *)
C23_AnswerDecrementsOne ==
    [][last'.op = "answer" =>
          LET K == CountKindOf(last'.kinds[1])
          IN  /\ ScopeCounts(tree')[K] = ScopeCounts(tree)[K] - 1
              /\ \A k \in CountKinds \ {K} :
                    ScopeCounts(tree')[k] = ScopeCounts(tree)[k]
              /\ \A k \in CountKinds :
                    /\ tree'[k].raw = tree[k].raw
                    /\ tree'[k].eff = tree[k].eff]_vars

(* The answer of a card to review buried its sibling, the only other card to
   review: the count of the cards to review went from 2 to 1 although no
   card to review is left, and the count of the new cards is still 1. *)
C23_Witness ==
    /\ last.op = "answer" /\ last.kinds = <<"rev">>
    /\ \E y \in (Siblings(last.arg) \ {last.arg}) \cap last.removed :
          hidden[y] = "buried" /\ ctype[y] = "rev"
    /\ ScopeCounts(tree)["rev"] = 1
    /\ ScopeCounts(tree)["new"] = 1
    /\ \A i \in Items : Classification(i) # "rev"

(* The selected deck had a limit of two new cards and held two new cards,
   the siblings x and y, and nothing else to study; the count shown was 2; x
   has just been answered and y has left the queues. *)
Scenario24(x, y) ==
    /\ last.op = "answer" /\ last.arg = x /\ last.kinds = <<"new">>
    /\ y # x /\ NoteOf(y) = NoteOf(x)
    /\ ctype[y] = "new" /\ deckOf[x] = scope /\ deckOf[y] = scope
    /\ limit[scope]["new"] = 1
    /\ tree["new"].raw[scope] = 2
    /\ tree["new"].eff[scope] = 2
    /\ ScopeCounts(tree)["new"] = 1
    /\ \A i \in Items \ {x, y} :
          ~(InScope(deckOf[i]) /\ Classification(i) \in QueueKinds)

(* C24 as stated: a deck with a limit of two new cards holds two new cards,
   siblings; the count shown is 2; after the first is answered the sibling
   has left the queues and getNextItem() returns "none" although the count
   of new cards is still 1, no reset having recomputed it. *)
C24_CountOverstates ==
    [][\A x, y \in Items :
          (Scenario24(x, y) /\ last'.op = "getNextItem") =>
              /\ y \notin Queued(queues)
              /\ last'.result = None
              /\ tree' = tree
              /\ ScopeCounts(tree')["new"] = 1]_vars

(* C24 amended: in the same situation the sibling has left the queues and
   the count of new cards is still 1; getNextItem() presents no new card
   when the answer buried the sibling in storage, and when siblings are not
   buried it calls the refill of the new queue and returns the sibling. *)
C24_CountOverstatesWhenBuried ==
    [][\A x, y \in Items :
          (Scenario24(x, y) /\ last'.op = "getNextItem") =>
              /\ y \notin Queued(queues)
              /\ tree' = tree
              /\ ScopeCounts(tree')["new"] = 1
              /\ burySiblings => (last'.result = None /\ AllEmpty(queues'))
              /\ ~burySiblings =>
                    (last'.result = y /\ last'.kinds = <<"new">>)]_vars

(* getNextItem returned "none" right after the answer of card 1 buried its
   sibling 2, the only other card of the selected deck, whose count of new
   cards is still 1. *)
C24_Witness ==
    /\ last.op = "getNextItem" /\ last.after = "answer"
    /\ last.result = None
    /\ burySiblings
    /\ ctype[1] = "done" /\ ctype[2] = "new" /\ hidden[2] = "buried"
    /\ deckOf[1] = scope /\ deckOf[2] = scope /\ ~InScope(deckOf[3])
    /\ limit[scope]["new"] = 1
    /\ tree["new"].raw[scope] = 2
    /\ ScopeCounts(tree)["new"] = 1

(* Queue q2 is queue q without the items of group G: it holds no item of G,
   every other item of q is still there, and two of them that followed one
   another in q do so in q2. *)
KeptInOrder(q, q2, G) ==
    /\ Len(q2) = Cardinality({n \in DOMAIN q : q[n] \notin G})
    /\ \A n \in DOMAIN q2 : q2[n] \notin G
    /\ \A n \in DOMAIN q :
          q[n] \notin G => \E a \in DOMAIN q2 : q2[a] = q[n]
    /\ \A m, n \in DOMAIN q :
          (m < n /\ q[m] \notin G /\ q[n] \notin G) =>
              \E a, b \in DOMAIN q2 : a < b /\ q2[a] = q[m] /\ q2[b] = q[n]

(* C25: consume(x) only takes x and the siblings of x out of the queues:
   the other queued items stay in the same queue in the same order, and the
   list of decks, the generation counter, the tree and storage are left as
   they were. *)
C25_ConsumeFrame ==
    [][last'.op = "consume" =>
          /\ \A k \in QueueKinds :
                KeptInOrder(queues[k], queues'[k], Siblings(last'.arg))
          /\ probeList' = probeList
          /\ generation' = generation
          /\ tree' = tree
          /\ scope' = scope
          /\ storageVars' = storageVars]_vars

(* consume(3) took card 3 out of a queue that keeps the siblings 1 and 2, in
   this order. *)
C25_Witness ==
    /\ last.op = "consume" /\ last.arg = 3 /\ last.removed = {3}
    /\ \E k \in QueueKinds : queues[k] = <<1, 2>>

(* The place of a kind in the order of priority. *)
PriorityIndex(k) == CHOOSE n \in DOMAIN Priority : Priority[n] = k

(* The kinds getNextItem went through to give the result res with the
   queues qs: all of them when it gave "none", and otherwise the kind whose
   queue has res at its front and the kinds before it. *)
Examined(qs, res) ==
    {k \in QueueKinds :
        \/ res = None
        \/ \E j \in QueueKinds :
              /\ qs[j] # <<>> /\ Head(qs[j]) = res
              /\ PriorityIndex(k) <= PriorityIndex(j)}

(* C26: when getNextItem() finds at the front of a queue a card that storage
   now gives as suspended or buried, the card leaves the queue and the call
   goes on: it returns a card that is neither suspended nor buried, or
   "none"; the cards it dropped are suspended or buried ones, none of them
   is returned nor left in a queue, and no queue it went through is left
   with a suspended or buried card at its front. *)
C26_DropsHiddenFront ==
    [][last'.op = "getNextItem" =>
          /\ last'.result \in Items \cup {None}
          /\ last'.result # None =>
                /\ hidden[last'.result] = "none"
                /\ \E k \in QueueKinds :
                      queues'[k] # <<>> /\ Head(queues'[k]) = last'.result
          /\ \A i \in last'.removed :
                /\ hidden[i] # "none"
                /\ i # last'.result
                /\ i \notin Queued(queues')
          /\ \A k \in Examined(queues', last'.result) :
                /\ queues'[k] # <<>> => hidden[Head(queues'[k])] = "none"
                /\ (queues[k] # <<>> /\ hidden[Head(queues[k])] # "none") =>
                       Head(queues[k]) \in last'.removed]_vars

(* Card 1 was suspended in storage while it was at the front of a queue:
   getNextItem dropped it and returned card 2. *)
C26_Witness ==
    /\ last.op = "getNextItem" /\ last.after = "suspendInStorage"
    /\ last.removed = {1} /\ hidden[1] = "suspended"
    /\ last.result = 2 /\ hidden[2] = "none"

(* The only card queued was buried in storage: getNextItem dropped it and
   returned "none". *)
C26_WitnessNone ==
    /\ last.op = "getNextItem" /\ last.after = "buryInStorage"
    /\ last.removed # {} /\ last.result = None

(* Some deck of the selected deck's subtree directly owns a card that can
   be studied today, of a kind whose count at the selected deck is not
   zero. *)
SomethingToStudy ==
    \E d \in Decks, k \in QueueKinds :
        InScope(d) /\ TopCount(k) # 0 /\ Yield(d, k) > 0

(* C27: in a session that has seen no change of the collection since its
   last full reset, getNextItem() returns a card whenever some deck of the
   selected deck's subtree directly owns an available card of a kind whose
   count at the selected deck is not zero: a deck dropped from the list
   during the refill of one kind does not hide its cards of another kind. *)
C27_DroppedDeckNotHidden ==
    [][(last'.op = "getNextItem" /\ SomethingToStudy) =>
          last'.result # None]_vars

(* getNextItem() has just returned "none" after the answer of a card to
   review: the list of decks is empty, no card is in learning, and a deck of
   the selected deck's subtree still owns a new card that can be studied
   today, the count of new cards being above zero. *)
C27_Starved ==
    /\ last.op = "getNextItem" /\ last.after = "answer"
    /\ last.result = None
    /\ probeList = <<>>
    /\ \A i \in Items : ctype[i] \in {"new", "rev", "done"}
    /\ TopCount("new") > 0
    /\ \E d \in Decks : InScope(d) /\ Yield(d, "new") > 0

----------------------------------------------------------------------------
(* Properties of the field editor, checked under SpecEditor *)

(* The handler h is among the calls of the last event. *)
Ran(e, h) == \E n \in DOMAIN e.calls : e.calls[n] = h

(* The commands of the given type among those the last event sent. *)
Saves(e, type) == {n \in DOMAIN e.sent : e.sent[n][1] = type}

(* C28 as stated: the key and input events are debounced: at most one timer
   is armed at any time; an event that calls triggerKeyTimer() leaves armed
   the new timer only, the one armed before being cancelled; and a timer
   that goes off sends a save of type "key" only if no key or input event,
   no save and no blur has occurred since it was armed. *)
C28_Debounced ==
    [][/\ Cardinality(editor'.timeouts) <= 1
       /\ Ran(editor', "triggerKeyTimer") =>
             /\ editor'.changeTimer \notin editor.timeouts
             /\ editor'.timeouts = {editor'.changeTimer}
       /\ (editor'.ev = "timer" /\ editor'.sent # <<>>) =>
             /\ editor'.sent = <<(<<"key", editor.currentField>>)>>
             /\ editor'.arg \notin editor.disturbed]_vars

(* C28 amended: at most one timer is armed at any time; an event that calls
   triggerKeyTimer() leaves armed the new timer only; a timer that goes off
   sends a save of type "key" only if neither triggerKeyTimer() nor
   saveField() has been called since it was armed. A key event or a blur
   that reaches neither of them leaves the timer armed: onKey() for
   Shift+Tab on MacIntel in the first field, and for Escape when there is no
   current field, and onBlur() when there is no current field. *)
C28_DebouncedByCalls ==
    [][/\ Cardinality(editor'.timeouts) <= 1
       /\ Ran(editor', "triggerKeyTimer") =>
             /\ editor'.changeTimer \notin editor.timeouts
             /\ editor'.timeouts = {editor'.changeTimer}
       /\ editor'.superseded = {}
       /\ (editor'.ev = "timer" /\ editor'.sent # <<>>) =>
             /\ editor'.sent = <<(<<"key", editor.currentField>>)>>
             /\ editor'.arg \notin editor.superseded
       /\ (Ran(editor', "onKey") /\ ~Ran(editor', "triggerKeyTimer")
               /\ ~Ran(editor', "saveField")) =>
             /\ editor'.timeouts = editor.timeouts
             /\ editor'.changeTimer = editor.changeTimer]_vars

(* The second timer went off and sent the save of field 0: the first timer
   had been cancelled when the second was armed. *)
C28_Witness ==
    /\ editor.ev = "timer" /\ editor.arg = 2
    /\ editor.sent = <<(<<"key", 0>>)>>
    /\ editor.timeouts = {} /\ editor.changeTimer = Null

(* With a current field, a blur event sends one save: of type "key" when the
   current field is the active element, the current field and the buttons
   staying as they are, and of type "blur" otherwise, after which there is
   no current field and the buttons are disabled. Without a current field it
   sends nothing and changes nothing. *)
BlurEffect(before, after) ==
    IF before.currentField = Null
    THEN /\ after.sent = <<>>
         /\ after.currentField = Null
         /\ after.buttonsEnabled = before.buttonsEnabled
         /\ after.changeTimer = before.changeTimer
    ELSE IF after.activeElement = before.currentField
         THEN /\ after.sent = <<(<<"key", before.currentField>>)>>
              /\ after.currentField = before.currentField
              /\ after.buttonsEnabled = before.buttonsEnabled
         ELSE /\ after.sent = <<(<<"blur", before.currentField>>)>>
              /\ after.currentField = Null
              /\ ~after.buttonsEnabled

(* C29: onBlur() with a current field sends exactly one save: of type "key",
   the current field unchanged, when the field is still the active element
   of the document, and otherwise of type "blur", after which currentField
   is null and the buttons are disabled; with no current field onBlur()
   sends nothing. When the focus goes on to another field, onFocus() runs
   after onBlur() and sets the current field again; the save of onBlur() is
   then the first command sent, of type "blur". *)
C29_OnBlurSavesOnce ==
    [][Ran(editor', "onBlur") =>
          /\ Cardinality(Saves(editor', "key") \cup Saves(editor', "blur")) =
                 (IF editor.currentField = Null THEN 0 ELSE 1)
          /\ ~Ran(editor', "onFocus") => BlurEffect(editor, editor')
          /\ (Ran(editor', "onFocus") /\ editor.currentField # Null) =>
                 editor'.sent[1] = <<"blur", editor.currentField>>]_vars

(* The window lost the focus while field 1 was the current field and the
   active element: one save of type "key" was sent and field 1 is still the
   current field, the buttons enabled. *)
C29_Witness ==
    /\ editor.ev = "windowBlur"
    /\ editor.sent = <<(<<"key", 1>>)>>
    /\ editor.currentField = 1 /\ editor.activeElement = 1
    /\ editor.buttonsEnabled

(* The focus left field 1 for another widget: one save of type "blur" was
   sent, there is no current field and the buttons are disabled. *)
C29_WitnessBlur ==
    /\ editor.ev = "blur" /\ editor.arg = 1
    /\ editor.sent = <<(<<"blur", 1>>)>>
    /\ editor.currentField = Null /\ ~editor.buttonsEnabled

(* The focus went from a field to field 1 while there was no current field:
   onBlur() sent nothing, and onFocus() told Python of the focus. *)
C29_WitnessNoField ==
    /\ editor.calls = <<"onBlur", "onFocus">>
    /\ editor.sent = <<(<<"focus", 1>>)>>

(* C30 as stated: in every state an armed change timer implies a current
   field. *)
C30_TimerImpliesField ==
    (editor.timeouts # {} \/ editor.changeTimer # Null) =>
        editor.currentField # Null

(* C30 amended: an event that sets currentField to null leaves no timer
   armed; a timer is armed with no current field only when
   triggerKeyTimer() was called while there was none, and it stays armed
   until it goes off or a field gets the focus; the callback of a timer
   that goes off with no current field sends nothing, and no save is ever
   sent without a field. *)
C30_NullingCancelsTimer ==
    [][/\ (editor.currentField # Null /\ editor'.currentField = Null) =>
             (editor'.timeouts = {} /\ editor'.changeTimer = Null)
       /\ (editor'.timeouts # {} /\ editor'.currentField = Null) =>
             /\ editor.currentField = Null
             /\ \/ editor'.timeouts = editor.timeouts
                \/ Ran(editor', "triggerKeyTimer")
       /\ (editor'.ev = "timer" /\ editor.currentField = Null) =>
             editor'.sent = <<>>
       /\ \A n \in DOMAIN editor'.sent : editor'.sent[n][2] \in Fields]_vars

(* A timer armed by a mouse button released over a field while there was no
   current field went off: saveField() ran and sent nothing. *)
C30_Witness ==
    /\ editor.ev = "timer"
    /\ editor.calls = <<"saveField">>
    /\ editor.currentField = Null
    /\ editor.sent = <<>>
    /\ editor.timeouts = {}

====
